---------------------------- MODULE Spec2Model ----------------------------
(***************************************************************************)
(* The nightlife rebalancing notebook (optimization.ipynb).                *)
(*                                                                         *)
(* The notebook holds three functions (calculate_new_percentages,          *)
(* objective_function, final_share), the cells that set the bounds, the    *)
(* sum constraint and the numerical input, the call of scipy's minimize    *)
(* and the final comparison.                                               *)
(*                                                                         *)
(* Numbers.  The notebook computes in floating point.  Here a number is an *)
(* exact fraction <<numerator, denominator>> in lowest terms with a        *)
(* positive denominator, so that two numbers are equal exactly when the    *)
(* two tuples are.  Rounding error of the doubles is not modelled.         *)
(*                                                                         *)
(* minimize.  The solver is scipy's, its code is not part of the notebook. *)
(* It is modelled by what the notebook says of it ("a module for finding   *)
(* the minimum of given function", subject to the bounds and to the        *)
(* constraint): it returns the vector with the least value of the          *)
(* objective among the vectors of Floats that satisfy the bounds and the   *)
(* constraint.  It raises nothing when no such vector exists; it then      *)
(* reports success = FALSE beside some vector inside the bounds, and the   *)
(* notebook reads result.x without looking at result.success.              *)
(***************************************************************************)
EXTENDS Integers, Sequences, FiniteSets, TLC

(***************************************************************************)
(* Bounds of the model.                                                    *)
(***************************************************************************)
\* Shares on input are multiples of 100/Levels percent.
Levels == 2
\* The calculator is tried for every N_tot in 1..MaxWeeks and every
\* N_passed in 0..MaxWeeks+1.
MaxWeeks == 4

\* The model follows three of the notebook's five clubs through the solver.
Clubs == <<"SchwuZ", "KitKat", "Berghain">>
NCat == Len(Clubs)

(***************************************************************************)
(* Exact arithmetic.                                                       *)
(***************************************************************************)
RECURSIVE GCD(_, _)
GCD(a, b) == IF b = 0 THEN a ELSE GCD(b, a % b)

Abs(n) == IF n < 0 THEN -n ELSE n

\* The fraction n/d in lowest terms, d # 0.
Norm(n, d) ==
    LET g == GCD(Abs(n), Abs(d))
    IN  <<(IF (n < 0) = (d < 0) THEN 1 ELSE -1) * (Abs(n) \div g), Abs(d) \div g>>

R(n) == <<n, 1>>
RAdd(a, b) == Norm(a[1] * b[2] + b[1] * a[2], a[2] * b[2])
RSub(a, b) == Norm(a[1] * b[2] - b[1] * a[2], a[2] * b[2])
RMul(a, b) == Norm(a[1] * b[1], a[2] * b[2])
\* b # 0
RDiv(a, b) == Norm(a[1] * b[2], a[2] * b[1])
RLe(a, b) == a[1] * b[2] <= b[1] * a[2]
RLt(a, b) == a[1] * b[2] < b[1] * a[2]

\* np.array arithmetic, element by element.
RECURSIVE np_sum(_)
np_sum(v) == IF v = <<>> THEN R(0) ELSE RAdd(v[1], np_sum(Tail(v)))

VSub(a, b) == [i \in 1..Len(a) |-> RSub(a[i], b[i])]
VAdd(a, b) == [i \in 1..Len(a) |-> RAdd(a[i], b[i])]
VScale(k, a) == [i \in 1..Len(a) |-> RMul(k, a[i])]
VDivide(a, k) == [i \in 1..Len(a) |-> RDiv(a[i], k)]
VSquare(a) == [i \in 1..Len(a) |-> RMul(a[i], a[i])]

\* np.round(x, 2), as the whole number of hundredths: to the nearest, a tie
\* to the even one.
Round2(x) ==
    LET n == 100 * x[1]
        q == n \div x[2]
        rem == n - q * x[2]
    IN  IF 2 * rem > x[2] \/ (2 * rem = x[2] /\ q % 2 = 1) THEN q + 1 ELSE q

None == <<>>

(***************************************************************************)
(* The notebook's functions.                                               *)
(***************************************************************************)
\* nt_i = N_passed/(N_tot - N_passed) * (t_i - cs_i) + t_i, with the period
\* confused for the whole: N_passed/N_tot.
calculate_new_percentages_by_total(t, cs, Ntot, Npassed) ==
    VAdd(VScale(RDiv(R(Npassed), R(Ntot)), VSub(t, cs)), t)

\* N_passed/(N_tot - N_passed) is a division of two Python ints: it raises
\* ZeroDivisionError when N_tot = N_passed (see Raises), and is computed
\* for every other pair, whatever its sign.
calculate_new_percentages(t, cs, Ntot, Npassed) ==
    VAdd(VScale(RDiv(R(Npassed), R(Ntot - Npassed)), VSub(t, cs)), t)

Raises(Ntot, Npassed) == Ntot - Npassed = 0

\* The objective with the distance taken to the original targets.
objective_function_to_targets(nt, t, cs, Ntot, Npassed) ==
    np_sum(VSquare(VSub(nt, t)))

\* The objective with the square forgotten.
objective_function_no_square(nt, t, cs, Ntot, Npassed) ==
    np_sum(VSub(nt, calculate_new_percentages(t, cs, Ntot, Npassed)))

objective_function(nt, t, cs, Ntot, Npassed) ==
    np_sum(VSquare(VSub(nt, calculate_new_percentages(t, cs, Ntot, Npassed))))

\* The forecast with the two weights exchanged.
final_share_swapped(nt, cs, Ntot, Npassed) ==
    VDivide(VAdd(VScale(R(Ntot - Npassed), cs), VScale(R(Npassed), nt)), R(Ntot))

final_share(nt, cs, Ntot, Npassed) ==
    VDivide(VAdd(VScale(R(Npassed), cs), VScale(R(Ntot - Npassed), nt)), R(Ntot))

(***************************************************************************)
(* The cells that set up the optimization.                                 *)
(***************************************************************************)
initial_guess == [i \in 1..NCat |-> R(50)]

\* The constraint with the total of a proportion (1) for that of a
\* percentage (100).
constraint_sum_proportion(x) == RSub(np_sum(x), R(1))

\* {'type': 'eq', 'fun': lambda x: np.sum(x) - 100}
constraint_sum(x) == RSub(np_sum(x), R(100))

\* bounds_perc of the notebook: (0, 100) for every club.
NotebookBounds == [i \in 1..NCat |-> <<R(0), R(100)>>]

(***************************************************************************)
(* minimize.                                                               *)
(***************************************************************************)
RECURSIVE Lcm(_)
Lcm(n) == IF n <= 1 THEN 1 ELSE (Lcm(n - 1) * n) \div GCD(Lcm(n - 1), n)

\* The numbers a component of the solver's vector can take: the multiples
\* of 100/Resolution between 0 and 100.  With the input shares multiples of
\* 100/Levels and at most NCat components sharing a remainder equally, the
\* minimum over the real vectors is among them.
Resolution == Levels * Lcm(NCat)
Floats == {Norm(100 * k, Resolution) : k \in 0..Resolution}

Vectors(S) == [1..NCat -> S]

InBounds(x, bounds) ==
    \A i \in 1..Len(x) : RLe(bounds[i][1], x[i]) /\ RLe(x[i], bounds[i][2])

\* The vectors within the bounds: the first n components.
RECURSIVE Box(_, _)
Box(bounds, n) ==
    IF n = 0
    THEN {<<>>}
    ELSE {Append(x, v) : x \in Box(bounds, n - 1),
                         v \in {w \in Floats : /\ RLe(bounds[n][1], w)
                                               /\ RLe(w, bounds[n][2])}}

\* The vectors of Floats that satisfy the equality constraint.
OnConstraint ==
    {x \in Box([i \in 1..NCat |-> <<R(0), R(100)>>], NCat) : constraint_sum(x) = R(0)}

FeasibleVectors(bounds) == {x \in OnConstraint : InBounds(x, bounds)}

\* minimize(objective_function, x0, args=(t, cs, Ntot, Npassed),
\*          constraints=constraint_sum, bounds=bounds): the possible results.
\* The objective is strictly convex, so the result does not depend on x0.
minimize(x0, t, cs, Ntot, Npassed, bounds) ==
    LET scored == {<<x, objective_function(x, t, cs, Ntot, Npassed)>> :
                      x \in FeasibleVectors(bounds)}
        values == {p[2] : p \in scored}
        least == CHOOSE v \in values : \A w \in values : RLe(v, w)
    IN  IF scored = {}
        THEN {[x |-> x, success |-> FALSE] : x \in Box(bounds, Len(bounds))}
        ELSE {[x |-> p[1], success |-> TRUE] : p \in {q \in scored : q[2] = least}}

(***************************************************************************)
(* Inputs.                                                                 *)
(***************************************************************************)
Shares == {Norm(100 * k, Levels) : k \in 0..Levels}

\* Shares of the clubs: they add up to 100 percent.
ShareVectors == {x \in Vectors(Shares) : np_sum(x) = R(100)}

\* The notebook's numerical input.
Notebook_t_i == <<R(28), R(22), R(15), R(25), R(10)>>
Notebook_cs_i ==
    <<Norm(162, 10), Norm(235, 10), Norm(148, 10), Norm(276, 10), Norm(179, 10)>>
Notebook_N_tot == 32
Notebook_N_passed == 24
\* The notebook's run, and the same run made when half of the weeks had
\* passed.
PassedChoices == {Notebook_N_passed, Notebook_N_tot \div 2}

\* Bounds the bounds cell may be given: one pair for every club; a vector of
\* lower bounds under the notebook's upper bound 100; a vector of upper
\* bounds over the notebook's lower bound 0.  The lower bound of a club is
\* never above its upper bound (scipy refuses such bounds).
BoundsChoices ==
    {[i \in 1..NCat |-> p] : p \in {q \in Shares \X Shares : RLe(q[1], q[2])}}
    \cup {[i \in 1..NCat |-> <<lo[i], R(100)>>] : lo \in ShareVectors}
    \cup {[i \in 1..NCat |-> <<R(0), up[i]>>] : up \in ShareVectors}

Lower(bounds) == [i \in 1..Len(bounds) |-> bounds[i][1]]
Upper(bounds) == [i \in 1..Len(bounds) |-> bounds[i][2]]

(***************************************************************************)
(* State: the notebook's global names.                                     *)
(***************************************************************************)
VARIABLES
    t_i,          \* original targets
    cs_i,         \* current shares
    N_tot,        \* total number of weeks
    N_passed,     \* number of weeks passed
    bounds_perc,  \* the bounds handed to minimize
    ref,          \* the value of calculate_new_percentages, called directly
    rt,           \* final_share of ref
    result,       \* what minimize returned
    nt_i,         \* result.x
    fs_i,         \* final shares
    delta,        \* fs_i - t_i
    err,          \* the exception that stopped the run, if any
    pc

vars == <<t_i, cs_i, N_tot, N_passed, bounds_perc, ref, rt, result, nt_i,
          fs_i, delta, err, pc>>

Blank ==
    /\ ref = None /\ rt = None /\ result = None /\ nt_i = None
    /\ fs_i = None /\ delta = None /\ err = None
    /\ pc = "input"

\* The notebook run on shares of the model's clubs.
Init ==
    /\ t_i \in ShareVectors
    /\ cs_i \in ShareVectors
    /\ N_tot = Notebook_N_tot
    /\ N_passed \in PassedChoices
    /\ bounds_perc \in BoundsChoices
    /\ Blank

\* The optimization cell:  result = minimize(...);  nt_i = result.x
Optimize ==
    /\ pc = "input"
    /\ IF Raises(N_tot, N_passed)
       THEN /\ err' = "ZeroDivisionError"
            /\ pc' = "error"
            /\ UNCHANGED <<result, nt_i>>
       ELSE /\ \E res \in minimize(initial_guess, t_i, cs_i, N_tot, N_passed,
                                   bounds_perc) :
                  /\ result' = res
                  /\ nt_i' = res.x
            /\ pc' = "optimized"
            /\ UNCHANGED err
    /\ UNCHANGED <<t_i, cs_i, N_tot, N_passed, bounds_perc, ref, rt, fs_i, delta>>

\* The comparison cell:  fs_i = final_share(...);  delta = fs_i - t_i
FinalComparison ==
    /\ pc = "optimized"
    /\ fs_i' = final_share(nt_i, cs_i, N_tot, N_passed)
    /\ delta' = VSub(final_share(nt_i, cs_i, N_tot, N_passed), t_i)
    /\ pc' = "compared"
    /\ UNCHANGED <<t_i, cs_i, N_tot, N_passed, bounds_perc, ref, rt, result,
                   nt_i, err>>

Next == Optimize \/ FinalComparison

Spec == Init /\ [][Next]_vars

(***************************************************************************)
(* The two functions of the period called on their own, "skipping the      *)
(* bounds": every period up to MaxWeeks, and the notebook's input.         *)
(***************************************************************************)
InitCalc ==
    /\ \/ /\ t_i \in ShareVectors
          /\ cs_i \in ShareVectors
       \/ /\ t_i = Notebook_t_i
          /\ cs_i = Notebook_cs_i
    /\ \/ /\ N_tot \in 1..MaxWeeks
          /\ N_passed \in 0..(MaxWeeks + 1)
       \/ /\ N_tot = Notebook_N_tot
          /\ N_passed = Notebook_N_passed
    /\ bounds_perc = NotebookBounds
    /\ Blank

\* ref = calculate_new_percentages(t_i, cs_i, N_tot, N_passed)
Calculate ==
    /\ pc = "input"
    /\ IF Raises(N_tot, N_passed)
       THEN /\ err' = "ZeroDivisionError"
            /\ pc' = "error"
            /\ UNCHANGED ref
       ELSE /\ ref' = calculate_new_percentages(t_i, cs_i, N_tot, N_passed)
            /\ pc' = "calculated"
            /\ UNCHANGED err
    /\ UNCHANGED <<t_i, cs_i, N_tot, N_passed, bounds_perc, rt, result, nt_i,
                   fs_i, delta>>

\* rt = final_share(ref, cs_i, N_tot, N_passed)
Forecast ==
    /\ pc = "calculated"
    /\ rt' = final_share(ref, cs_i, N_tot, N_passed)
    /\ pc' = "forecast"
    /\ UNCHANGED <<t_i, cs_i, N_tot, N_passed, bounds_perc, ref, result, nt_i,
                   fs_i, delta, err>>

NextCalc == Calculate \/ Forecast

SpecCalc == InitCalc /\ [][NextCalc]_vars


(***************************************************************************)
(* Properties.                                                             *)
(***************************************************************************)
TypeOK ==
    /\ pc \in {"input", "optimized", "compared", "calculated", "forecast", "error"}
    /\ err \in {None, "ZeroDivisionError"}
    /\ N_tot \in Nat /\ N_passed \in Nat
    /\ Len(t_i) = Len(cs_i)

\* The reference vector of the state: what objective_function measures the
\* distance to.
Reference == calculate_new_percentages(t_i, cs_i, N_tot, N_passed)

\* The optimization cell has run to its end.
Optimized == pc \in {"optimized", "compared"}

\* lower_i <= upper_i holds of every choice of bounds; the box meets the
\* constraint when sum(lower) <= 100 <= sum(upper).
ValidBounds ==
    /\ RLe(np_sum(Lower(bounds_perc)), R(100))
    /\ RLe(R(100), np_sum(Upper(bounds_perc)))

ValidPeriod == 0 < N_passed /\ N_passed < N_tot

SqDist(x, r) == np_sum([i \in 1..Len(x) |-> RMul(RSub(x[i], r[i]), RSub(x[i], r[i]))])

clip(v, lo, hi) == IF RLt(v, lo) THEN lo ELSE IF RLt(hi, v) THEN hi ELSE v

Saturated(i) == nt_i[i] = bounds_perc[i][1] \/ nt_i[i] = bounds_perc[i][2]

InfeasibleBoundsRejected ==
    (pc # "input" /\ ~ValidBounds) =>
        /\ err = "InfeasibleBounds"
        /\ nt_i = None

\* C4 (invalid period is rejected), as claimed: with N_passed <= 0 or
\* N_passed >= N_tot the calculator fails and yields no reference vector.
InvalidPeriodRejected ==
    (pc # "input" /\ ~ValidPeriod) =>
        /\ err # None
        /\ ref = None

NotebookInput ==
    /\ t_i = Notebook_t_i
    /\ cs_i = Notebook_cs_i
    /\ N_tot = Notebook_N_tot
    /\ N_passed = Notebook_N_passed

\* C5 (scenario D), as claimed: the notebook's input gives the reference
\* vector [59.97, 14.08, 12.18, 13.78, -3.97] to 2 decimal places.
ScenarioDAsClaimed ==
    (pc = "calculated" /\ NotebookInput) =>
        [i \in 1..Len(ref) |-> Round2(ref[i])] = <<5997, 1408, 1218, 1378, -397>>

\* C5 (scenario D), amended: the notebook's input gives the reference vector
\* [63.40, 17.50, 15.60, 17.20, -13.70] to 2 decimal places.
ScenarioD ==
    (pc = "calculated" /\ NotebookInput) =>
        [i \in 1..Len(ref) |-> Round2(ref[i])] = <<6340, 1750, 1560, 1720, -1370>>

\* The calculator has run on the notebook's input.
ScenarioDWitness == pc = "calculated" /\ NotebookInput /\ Len(ref) = 5

\* C6 (round trip): over a period with 0 < N_passed < N_tot the forecast of
\* the reference vector is the vector of original targets, that is
\* N_tot * t_i = N_passed * cs_i + (N_tot - N_passed) * r_i for every i.
RoundTrip ==
    (pc = "forecast" /\ ValidPeriod) =>
        /\ rt = t_i
        /\ \A i \in 1..Len(t_i) :
              RMul(R(N_tot), t_i[i])
                  = RAdd(RMul(R(N_passed), cs_i[i]), RMul(R(N_tot - N_passed), ref[i]))

\* A forecast over a valid period of a reference vector that differs from
\* the targets and leaves the range of a percentage.
RoundTripWitness ==
    /\ pc = "forecast"
    /\ ValidPeriod
    /\ N_passed # N_tot - N_passed
    /\ \E i \in 1..Len(ref) : RLt(ref[i], R(0))
    /\ rt = t_i

Lambdas ==
    UNION {{RSub(Reference[i], nt_i[i]),
            RSub(Reference[i], bounds_perc[i][1]),
            RSub(Reference[i], bounds_perc[i][2])} : i \in 1..NCat}

=============================================================================
